---- MODULE Spec2Model ----
(***************************************************************************)
(* Wafer: imaginary-time propagation of wavefunctions on a padded 3D grid. *)
(* Model of src/src/grid.rs (run, solve, evolve and their helpers) and of  *)
(* src/src/input.rs (parse_csv_to_array3, load_wavefunctions).             *)
(*                                                                         *)
(* Numbers.  An f64 is modelled as <<kind, n, d>>: kind 0 is the finite    *)
(* rational n/d in lowest terms (d > 0), kind 1 is NaN, kind 2 is +inf and *)
(* kind 3 is -inf.  Finite arithmetic is exact (no rounding); a finite     *)
(* result whose magnitude exceeds MaxFloat overflows to an infinity, as an *)
(* f64 does beyond f64::MAX.  Signed zeros are not distinguished (the only *)
(* divisor that can be zero in the code is a square root, which is +0).    *)
(***************************************************************************)
EXTENDS Integers, Sequences, FiniteSets, TLC

\* Stand-in for f64::MAX: the largest finite magnitude of the model's floats.
MaxFloat == 1000000

RECURSIVE Gcd(_, _)
Gcd(a, b) == IF b = 0 THEN a ELSE Gcd(b, a % b)

IAbs(x) == IF x < 0 THEN -x ELSE x

NaN == <<1, 0, 1>>
PInf == <<2, 0, 1>>
NInf == <<3, 0, 1>>

\* The finite float n/d (d # 0), reduced; beyond MaxFloat it overflows.
Fin(n, d) ==
    IF n = 0 THEN <<0, 0, 1>>
    ELSE LET s == IF (n < 0) = (d < 0) THEN 1 ELSE -1
             an == IAbs(n)
             ad == IAbs(d)
             g == Gcd(an, ad)
             rn == an \div g
             rd == ad \div g
             q == rn \div rd
         IN  IF q > MaxFloat \/ (q = MaxFloat /\ rn % rd # 0)
             THEN (IF s = 1 THEN PInf ELSE NInf)
             ELSE <<0, s * rn, rd>>

Num(i) == Fin(i, 1)
Zero == <<0, 0, 1>>
One == <<0, 1, 1>>
\* std::f64::MAX
MAX == Fin(MaxFloat, 1)

IsNaN(x) == x[1] = 1
IsInf(x) == x[1] = 2 \/ x[1] = 3
\* f64::is_finite
IsFinite(x) == x[1] = 0
IsZero(x) == x[1] = 0 /\ x[2] = 0
\* -1, 0, 1 for a non-NaN value
Sign(x) ==
    IF x[1] = 2 THEN 1
    ELSE IF x[1] = 3 THEN -1
    ELSE IF x[2] > 0 THEN 1 ELSE IF x[2] < 0 THEN -1 ELSE 0

SignedInf(s) == IF s > 0 THEN PInf ELSE NInf

FNeg(x) ==
    IF x[1] = 0 THEN <<0, -x[2], x[3]>>
    ELSE IF x[1] = 2 THEN NInf
    ELSE IF x[1] = 3 THEN PInf
    ELSE NaN

FAdd(x, y) ==
    IF IsNaN(x) \/ IsNaN(y) THEN NaN
    ELSE IF IsInf(x) /\ IsInf(y) THEN (IF x = y THEN x ELSE NaN)
    ELSE IF IsInf(x) THEN x
    ELSE IF IsInf(y) THEN y
    ELSE IF x[2] = 0 THEN y
    ELSE IF y[2] = 0 THEN x
    ELSE LET g == Gcd(x[3], y[3])
         IN  Fin(x[2] * (y[3] \div g) + y[2] * (x[3] \div g), (x[3] \div g) * y[3])

FSub(x, y) == FAdd(x, FNeg(y))

FMul(x, y) ==
    IF IsNaN(x) \/ IsNaN(y) THEN NaN
    ELSE IF IsInf(x) \/ IsInf(y)
         THEN (IF Sign(x) = 0 \/ Sign(y) = 0 THEN NaN
               ELSE SignedInf(Sign(x) * Sign(y)))
    ELSE IF x[2] = 0 \/ y[2] = 0 THEN Zero
    ELSE LET g1 == Gcd(IAbs(x[2]), y[3])
             g2 == Gcd(IAbs(y[2]), x[3])
         IN  Fin((x[2] \div g1) * (y[2] \div g2), (x[3] \div g2) * (y[3] \div g1))

FDiv(x, y) ==
    IF IsNaN(x) \/ IsNaN(y) THEN NaN
    ELSE IF IsInf(x) /\ IsInf(y) THEN NaN
    ELSE IF IsInf(x) THEN (IF Sign(y) < 0 THEN FNeg(x) ELSE x)
    ELSE IF IsInf(y) THEN Zero
    ELSE IF y[2] = 0
         THEN (IF x[2] = 0 THEN NaN ELSE SignedInf(Sign(x)))
    ELSE IF x[2] = 0 THEN Zero
    ELSE LET g1 == Gcd(IAbs(x[2]), IAbs(y[2]))
             g2 == Gcd(x[3], y[3])
         IN  Fin((x[2] \div g1) * (y[3] \div g2), (x[3] \div g2) * (y[2] \div g1))

\* f64::abs
FAbs(x) ==
    IF x[1] = 0 THEN <<0, IAbs(x[2]), x[3]>>
    ELSE IF IsInf(x) THEN PInf
    ELSE NaN

\* x < y on f64: false as soon as one side is NaN
FLt(x, y) ==
    IF IsNaN(x) \/ IsNaN(y) THEN FALSE
    ELSE IF x = y THEN FALSE
    ELSE IF x[1] = 3 \/ y[1] = 2 THEN TRUE
    ELSE IF x[1] = 2 \/ y[1] = 3 THEN FALSE
    ELSE LET qx == x[2] \div x[3]
             qy == y[2] \div y[3]
         IN  IF qx # qy THEN qx < qy
             ELSE (x[2] % x[3]) * y[3] < (y[2] % y[3]) * x[3]

\* f64::min: the other operand when one is NaN
FMin(x, y) ==
    IF IsNaN(x) THEN y
    ELSE IF IsNaN(y) THEN x
    ELSE IF FLt(y, x) THEN y ELSE x

RECURSIVE ISqrtIn(_, _, _)
ISqrtIn(n, lo, hi) ==
    IF lo >= hi THEN lo
    ELSE LET mid == (lo + hi + 1) \div 2
         IN  IF mid <= n \div mid THEN ISqrtIn(n, mid, hi) ELSE ISqrtIn(n, lo, mid - 1)
\* the integer square root of n >= 0
ISqrt(n) == ISqrtIn(n, 0, n)

\* f64::sqrt.  Exact on the squares of rationals, which is what a sum of
\* squares over a one-cell interior always is.
FSqrt(x) ==
    IF IsNaN(x) \/ x[1] = 3 THEN NaN
    ELSE IF x[1] = 2 THEN PInf
    ELSE IF x[2] < 0 THEN NaN
    ELSE LET rn == ISqrt(x[2])
             rd == ISqrt(x[3])
         IN  IF rn * rn = x[2] /\ rd * rd = x[3]
             THEN Fin(rn, rd)
             ELSE CHOOSE r \in {} : TRUE


(***************************************************************************)
(* Grid layout: padded arrays, the interior ("work area") and the halo.    *)
(***************************************************************************)
\* Width of the halo on every face (hardcoded 7-point stencil).
Halo == 3
\* config.grid.size: interior extents of the modelled grid.
NX == 1
NY == 1
NZ == 1
\* Padded extents (num + 6 on every axis).
SX == NX + 2 * Halo
SY == NY + 2 * Halo
SZ == NZ + 2 * Halo
NCells == SX * SY * SZ

\* An Array3<f64> of the padded shape is a sequence of NCells floats in
\* row-major order; Idx maps 0-based (i, j, k) to its position.
Idx(i, j, k) == (i * SY + j) * SZ + k + 1
CX(c) == (c - 1) \div (SY * SZ)
CY(c) == ((c - 1) \div SZ) % SY
CZ(c) == (c - 1) % SZ
Cells == 1..NCells

\* get_work_area / get_mut_work_area: the cells 3..dim-3 on every axis.
InWorkArea(c) ==
    /\ CX(c) >= Halo /\ CX(c) < SX - Halo
    /\ CY(c) >= Halo /\ CY(c) < SY - Halo
    /\ CZ(c) >= Halo /\ CZ(c) < SZ - Halo
WorkCells == {c \in Cells : InWorkArea(c)}
HaloCells == Cells \ WorkCells

\* Array3::zeros
Zeros == [c \in Cells |-> Zero]

RECURSIVE RangeSum(_, _, _, _)
\* sum of f[c] over the cells lo..hi, of the work area only when work holds
\* (halving the range)
RangeSum(f, work, lo, hi) ==
    IF lo > hi THEN Zero
    ELSE IF lo = hi THEN (IF work => InWorkArea(lo) THEN f[lo] ELSE Zero)
    ELSE LET mid == (lo + hi) \div 2
         IN  FAdd(RangeSum(f, work, lo, mid), RangeSum(f, work, mid + 1, hi))

\* sum of f over the work area
SumOver(f) == RangeSum(f, TRUE, 1, NCells)

\* Array3::scalar_sum over the whole array f
ScalarSum(f) == RangeSum(f, FALSE, 1, NCells)

(***************************************************************************)
(* Observables, normalisation, orthogonalisation.                          *)
(***************************************************************************)
\* get_norm_squared over the work area
get_norm_squared(w) == SumOver([c \in Cells |-> FMul(w[c], w[c])])

\* 360 * dn^2 * mass
Denominator(cf) == FMul(FMul(Num(360), FMul(cf.dn, cf.dn)), cf.mass)

\* The 19-tap bracket of wfnc_energy at the padded cell (x, y, z), in the
\* order the source writes it; w is the centre value.
StencilEnergy(l, x, y, z, w) ==
    LET T(cf, i, j, k) == FMul(Num(cf), l[Idx(i, j, k)])
        t1 == FSub(T(2, x + 3, y, z), T(27, x + 2, y, z))
        t2 == FAdd(t1, T(270, x + 1, y, z))
        t3 == FAdd(t2, T(270, x - 1, y, z))
        t4 == FSub(t3, T(27, x - 2, y, z))
        t5 == FAdd(t4, T(2, x - 3, y, z))
        t6 == FAdd(t5, T(2, x, y + 3, z))
        t7 == FSub(t6, T(27, x, y + 2, z))
        t8 == FAdd(t7, T(270, x, y + 1, z))
        t9 == FAdd(t8, T(270, x, y - 1, z))
        t10 == FSub(t9, T(27, x, y - 2, z))
        t11 == FAdd(t10, T(2, x, y - 3, z))
        t12 == FAdd(t11, T(2, x, y, z + 3))
        t13 == FSub(t12, T(27, x, y, z + 2))
        t14 == FAdd(t13, T(270, x, y, z + 1))
        t15 == FAdd(t14, T(270, x, y, z - 1))
        t16 == FSub(t15, T(27, x, y, z - 2))
        t17 == FAdd(t16, T(2, x, y, z - 3))
    IN  FSub(t17, FMul(Num(1470), w))

\* a bracket that takes the centre term once per axis
StencilCentrePerAxis(l, x, y, z, w) ==
    FSub(StencilEnergy(l, x, y, z, w), FMul(Num(2940), w))

\* The 19-tap bracket of evolve at the padded cell (x, y, z).
StencilEvolve(l, x, y, z, w) ==
    LET T(cf, i, j, k) == FMul(Num(cf), l[Idx(i, j, k)])
        t1 == FSub(T(2, x + 3, y, z), T(27, x + 2, y, z))
        t2 == FAdd(t1, T(270, x + 1, y, z))
        t3 == FAdd(t2, T(270, x - 1, y, z))
        t4 == FSub(t3, T(27, x - 2, y, z))
        t5 == FAdd(t4, T(2, x - 3, y, z))
        t6 == FAdd(t5, T(2, x, y + 3, z))
        t7 == FSub(t6, T(27, x, y + 2, z))
        t8 == FAdd(t7, T(270, x, y + 1, z))
        t9 == FAdd(t8, T(270, x, y - 1, z))
        t10 == FSub(t9, T(27, x, y - 2, z))
        t11 == FAdd(t10, T(2, x, y - 3, z))
        t12 == FAdd(t11, T(2, x, y, z + 3))
        t13 == FSub(t12, T(27, x, y, z + 2))
        t14 == FAdd(t13, T(270, x, y, z + 1))
        t15 == FAdd(t14, T(270, x, y, z - 1))
        t16 == FSub(t15, T(27, x, y, z - 2))
        t17 == FAdd(t16, T(2, x, y, z - 3))
    IN  FSub(t17, FMul(Num(1470), w))

\* wfnc_energy: sum over the work area of v*w*w - w*(bracket)/denominator
wfnc_energy(cf, v, phi) ==
    LET den == Denominator(cf)
        work == [c \in Cells |->
                    IF InWorkArea(c)
                    THEN FSub(FMul(FMul(v[c], phi[c]), phi[c]),
                              FDiv(FMul(phi[c],
                                        StencilEnergy(phi, CX(c), CY(c), CZ(c), phi[c])),
                                   den))
                    ELSE Zero]
    IN  SumOver(work)

\* compute_observables (energy and norm2; v_infinity and r2 are sums of
\* supplier terms that only reach the output sink)
compute_observables(cf, v, phi) ==
    [energy |-> wfnc_energy(cf, v, phi), norm2 |-> get_norm_squared(phi)]

\* normalise_wavefunction: every entry, halo included, divided by sqrt(norm2)
normalise_wavefunction(w, norm2) ==
    LET norm == FSqrt(norm2)
    IN  [c \in Cells |-> FDiv(w[c], norm)]

RECURSIVE OrthogonaliseFrom(_, _, _, _)
OrthogonaliseFrom(idx, wnum, w, store) ==
    IF idx >= wnum THEN w
    ELSE LET lower == store[idx + 1]
             overlap == ScalarSum([c \in Cells |-> FMul(lower[c], w[c])])
             nw == [c \in Cells |-> FSub(w[c], FMul(lower[c], overlap))]
         IN  OrthogonaliseFrom(idx + 1, wnum, nw, store)
\* orthogonalise_wavefunction: Gram-Schmidt against w_store[0..wnum)
orthogonalise_wavefunction(wnum, w, store) == OrthogonaliseFrom(0, wnum, w, store)

\* One pass of the loop body of evolve: the update of the work area through
\* a scratch array, then (wnum > 0) normalise and orthogonalise.
EvolveOnce(wnum, cf, pots, phi, store) ==
    LET den == Denominator(cf)
        work == [c \in Cells |->
                    IF InWorkArea(c)
                    THEN FAdd(FMul(phi[c], pots.a[c]),
                              FDiv(FMul(FMul(pots.b[c], cf.dt),
                                        StencilEvolve(phi, CX(c), CY(c), CZ(c), phi[c])),
                                   den))
                    ELSE Zero]
        filled == [c \in Cells |-> IF InWorkArea(c) THEN work[c] ELSE phi[c]]
    IN  IF wnum > 0
        THEN orthogonalise_wavefunction(wnum,
                 normalise_wavefunction(filled, get_norm_squared(filled)), store)
        ELSE filled


(***************************************************************************)
(* Collaborators outside the core: the potential supplier, the initial     *)
(* conditions and the symmetrise hook, each drawn from a small set.        *)
(***************************************************************************)
PotentialKinds == {"err", "zero", "mixed", "nonfinite"}

\* potential::generate / from_file / from_script: Err, or V on the padded grid
PotentialSupplier(kind) ==
    IF kind = "err" THEN [ok |-> FALSE, v |-> Zeros]
    ELSE IF kind = "zero" THEN [ok |-> TRUE, v |-> Zeros]
    ELSE IF kind = "nonfinite" THEN [ok |-> TRUE, v |-> [c \in Cells |-> PInf]]
    ELSE [ok |-> TRUE,
          v |-> [c \in Cells |->
                   IF InWorkArea(c) THEN Num(98)
                   ELSE IF c = Idx(0, 0, 0) THEN Num(-2)
                   ELSE IF c = Idx(0, 0, 1) THEN NaN
                   ELSE IF c = Idx(SX - 1, SY - 1, SZ - 1) THEN PInf
                   ELSE Zero]]

InitKinds == {"unit", "two", "zero", "halo", "tap"}

\* config::set_initial_conditions: the seed of a ground-state search.
\* "halo" and "tap" leave nonzero values in halo cells: "halo" on the two
\* x-neighbours of the interior (opposite signs) and in a corner, "tap" on
\* the three cells that follow the interior along x.
set_initial_conditions(cf) ==
    IF cf.init = "zero" THEN Zeros
    ELSE [c \in Cells |->
            IF InWorkArea(c) THEN (IF cf.init \in {"two", "tap"} THEN Num(2) ELSE One)
            ELSE IF cf.init = "halo" /\ c = Idx(Halo + NX, Halo, Halo) THEN One
            ELSE IF cf.init = "halo" /\ c = Idx(Halo - 1, Halo, Halo) THEN Num(-1)
            ELSE IF cf.init = "halo" /\ c = Idx(0, 0, 0) THEN One
            ELSE IF cf.init = "tap" /\ c = Idx(Halo + NX, Halo, Halo) THEN Num(5)
            ELSE IF cf.init = "tap" /\ c = Idx(Halo + NX + 1, Halo, Halo) THEN Num(-4)
            ELSE IF cf.init = "tap" /\ c = Idx(Halo + NX + 2, Halo, Halo) THEN Num(6)
            ELSE Zero]

\* config::symmetrise_wavefunction: with the even parity configured, the mean
\* of the array and its reflection through the centre of the grid
symmetrise_wavefunction(cf, w) ==
    IF cf.symmetry = "even"
    THEN [c \in Cells |->
            FDiv(FAdd(w[c], w[Idx(SX - 1 - CX(c), SY - 1 - CY(c), SZ - 1 - CZ(c))]),
                 Num(2))]
    ELSE w

(***************************************************************************)
(* load_potential_arrays                                                   *)
(***************************************************************************)
RECURSIVE MinimaOver(_, _, _)
\* the loop over v.iter() on the cells lo..hi: the minimum of MAX and the
\* finite entries (halving the range)
MinimaOver(v, lo, hi) ==
    IF lo = hi THEN (IF IsFinite(v[lo]) THEN FMin(MAX, v[lo]) ELSE MAX)
    ELSE LET mid == (lo + hi) \div 2
         IN  FMin(MinimaOver(v, lo, mid), MinimaOver(v, mid + 1, hi))

\* line 48: one element of b, from the element of v at the same cell
PotentialB(cf, vc) == FDiv(One, FAdd(One, FDiv(FMul(cf.dt, vc), Num(2))))
\* line 49: one element of a, from the elements of v and b at the same cell
PotentialA(cf, vc, bc) == FMul(FSub(One, FDiv(FMul(cf.dt, vc), Num(2))), bc)
\* 2 * |minima|
Epsilon(v) == FMul(Num(2), FAbs(MinimaOver(v, 1, NCells)))

\* The Potentials bundle built from a supplied V.
load_potential_arrays(cf, v) ==
    [v |-> v,
     a |-> [c \in Cells |-> PotentialA(cf, v[c], PotentialB(cf, v[c]))],
     b |-> [c \in Cells |-> PotentialB(cf, v[c])],
     epsilon |-> Epsilon(v)]

NoPotentials == [v |-> Zeros, a |-> Zeros, b |-> Zeros, epsilon |-> Zero]


(***************************************************************************)
(* Configurations.                                                         *)
(***************************************************************************)
\* largest config.max_steps explored
MaxSteps == 3
\* config.wavenum and config.wavemax explored: the ground state and the first
\* excited state (the exact rationals of a third Gram-Schmidt pass exceed
\* the integers of the model checker)
Waves == {0, 1}

\* (potential, init_condition, symmetry, save_wavefns, tolerance, dt)
Scenarios ==
    { <<"zero", "unit", "none", TRUE, Fin(1, 100), Fin(2, 49)>>,
      <<"zero", "halo", "none", TRUE, Fin(1, 100), Fin(2, 49)>>,
      <<"zero", "tap", "none", FALSE, Fin(1, 100), Fin(1, 49)>>,
      <<"zero", "zero", "none", FALSE, Fin(1, 100), Fin(2, 49)>>,
      <<"mixed", "two", "none", FALSE, Fin(1, 100), Fin(2, 49)>>,
      <<"mixed", "halo", "even", TRUE, Fin(1, 2), Fin(2, 49)>>,
      <<"nonfinite", "unit", "none", FALSE, Fin(1, 100), Fin(2, 49)>>,
      <<"err", "unit", "none", FALSE, Fin(1, 100), Fin(2, 49)>> }

Configs ==
    { [wavenum |-> wn, wavemax |-> wm, max_steps |-> ms,
       snap_update |-> sn, screen_update |-> sc,
       tolerance |-> sce[5], dt |-> sce[6], dn |-> One, mass |-> Fin(1, 12),
       potential |-> sce[1], init |-> sce[2], symmetry |-> sce[3],
       save_wavefns |-> sce[4], save_potential |-> sce[4]] :
      wn \in Waves, wm \in Waves, ms \in 1..MaxSteps,
      sn \in {1, 2}, sc \in {1, 2}, sce \in Scenarios }

(***************************************************************************)
(* State.                                                                  *)
(***************************************************************************)
VARIABLES
    config,          \* the Config of the run
    status,          \* "running", "finished" or the panic that ended the run
    pc,              \* position in run / solve / evolve
    potentials,      \* the Potentials bundle, once loaded
    pot_saved,       \* calls of output::potential_plain: <<ok>>
    w_store,         \* run's long-term store of converged wavefunctions
    wnum,            \* the state being solved
    phi,             \* params.phi
    step, done, converged, last_energy, display_energy,   \* locals of solve
    observables,     \* the Observables of the current iteration
    steps,           \* local of evolve
    applied,         \* update steps applied to phi since it was seeded
    measurements,    \* records handed to output::measurements in this search
    saved,           \* calls of output::wavefunction_plain
    file,            \* input: the file wavefunction_plain found, if any
    pos,             \* input: the next record of the csv reader
    max_i, max_j, max_k, data,   \* locals of parse_csv_to_array3
    wfn,             \* input: the Result handed to load_wavefunctions
    bracket          \* the stencil sums of the two kernels at a cell, once computed

vars == <<config, status, pc, potentials, pot_saved, w_store, wnum, phi, step, done,
          converged, last_energy, display_energy, observables, steps, applied,
          measurements, saved, file, pos, max_i, max_j, max_k, data, wfn, bracket>>

solveLocals == <<phi, step, done, converged, last_energy, display_energy,
                 observables, steps, applied, measurements>>

NoObservables == [energy |-> Zero, norm2 |-> Zero]

\* the variables of the input module
csvLocals == <<file, pos, max_i, max_j, max_k, data, wfn>>

NoFile == [some |-> FALSE, records |-> <<>>]
NoResult == [kind |-> "none", array |-> <<>>]
\* neither kernel has computed its stencil sum: <<>> stands for no value
NoBracket == [energy |-> <<>>, evolve |-> <<>>]

\* nothing computed yet, nothing written, nothing read: all but phi
FreshButPhi ==
    /\ potentials = NoPotentials
    /\ pot_saved = <<>>
    /\ w_store = <<>>
    /\ bracket = NoBracket
    /\ step = 0
    /\ done = FALSE
    /\ converged = FALSE
    /\ last_energy = MAX
    /\ display_energy = MAX
    /\ observables = NoObservables
    /\ steps = 0
    /\ applied = 0
    /\ measurements = <<>>
    /\ saved = <<>>
    /\ file = NoFile
    /\ pos = 0
    /\ max_i = 0 /\ max_j = 0 /\ max_k = 0
    /\ data = <<>>
    /\ wfn = NoResult

Fresh == phi = Zeros /\ FreshButPhi

Init ==
    /\ config \in Configs
    /\ status = "running"
    /\ pc = "load"
    /\ wnum = config.wavenum
    /\ Fresh

\* energy / norm2 of the current iteration
norm_energy == FDiv(observables.energy, observables.norm2)

(***************************************************************************)
(* run                                                                     *)
(***************************************************************************)
\* run, line 82: load_potential_arrays; the supplier's Err is a panic.
LoadPotential ==
    /\ status = "running" /\ pc = "load"
    /\ \E r \in {PotentialSupplier(config.potential)} :
           IF ~r.ok
           THEN /\ status' = "panic_potential"
                /\ UNCHANGED <<potentials, pot_saved, pc>>
           ELSE /\ potentials' = load_potential_arrays(config, r.v)
                /\ IF config.save_potential
                   THEN \E ok \in BOOLEAN : pot_saved' = Append(pot_saved, ok)
                   ELSE pot_saved' = pot_saved
                /\ pc' = "for"
                /\ UNCHANGED status
    /\ UNCHANGED <<bracket, csvLocals, config, w_store, wnum, solveLocals, saved>>

\* run, line 85: the head of the loop over wavenum..wavemax+1
ForNext ==
    /\ status = "running" /\ pc = "for"
    /\ IF wnum <= config.wavemax
       THEN pc' = "seed" /\ UNCHANGED status
       ELSE status' = "finished" /\ UNCHANGED pc
    /\ UNCHANGED <<bracket, csvLocals, config, potentials, pot_saved, w_store, wnum, solveLocals, saved>>

(***************************************************************************)
(* solve                                                                   *)
(***************************************************************************)
\* solve, lines 112-127: the seed of params.phi and the locals of the loop.
\* w_store[wnum - 1] outside the store is an index panic.
Seed ==
    /\ status = "running" /\ pc = "seed"
    /\ IF wnum > 0 /\ wnum - 1 >= Len(w_store)
       THEN /\ status' = "panic_index"
            /\ UNCHANGED <<pc, solveLocals>>
       ELSE /\ phi' = IF wnum > 0 THEN w_store[wnum] ELSE set_initial_conditions(config)
            /\ step' = 0
            /\ done' = FALSE
            /\ converged' = FALSE
            /\ last_energy' = MAX
            /\ display_energy' = MAX
            /\ applied' = 0
            /\ measurements' = <<>>
            /\ pc' = "observe"
            /\ UNCHANGED <<status, observables, steps>>
    /\ UNCHANGED <<bracket, csvLocals, config, potentials, pot_saved, w_store, wnum, saved>>

\* solve, lines 130-131. compute_observables asks potential::potential_sub
\* for every cell of the work area and panics on its Err (lines 211-214).
Observe ==
    /\ status = "running" /\ pc = "observe"
    /\ \E potsub_ok \in BOOLEAN :
          IF potsub_ok
          THEN /\ observables' = compute_observables(config, potentials.v, phi)
               /\ pc' = "ortho"
               /\ UNCHANGED status
          ELSE /\ status' = "panic_potential_sub"
               /\ UNCHANGED <<observables, pc>>
    /\ UNCHANGED <<bracket, csvLocals, config, potentials, pot_saved, w_store, wnum, phi, step,
                   done, converged, last_energy, display_energy, steps, applied,
                   measurements, saved>>

\* solve, lines 133-136
Orthonormalise ==
    /\ status = "running" /\ pc = "ortho"
    /\ phi' = IF wnum > 0
              THEN orthogonalise_wavefunction(wnum,
                       normalise_wavefunction(phi, observables.norm2), w_store)
              ELSE phi
    /\ pc' = "snap"
    /\ UNCHANGED <<bracket, csvLocals, config, status, potentials, pot_saved, w_store, wnum, step, done,
                   converged, last_energy, display_energy, observables, steps, applied,
                   measurements, saved>>

\* a snap test that holds at every step
IsSnapPointAlways == TRUE

\* step % snap_update == 0
IsSnapPoint == step % config.snap_update = 0
\* (norm_energy - last_energy).abs() < tolerance
ToleranceMet == FLt(FAbs(FSub(norm_energy, last_energy)), config.tolerance)

\* solve, lines 139-152
Snap ==
    /\ status = "running" /\ pc = "snap"
    /\ IF IsSnapPoint
       THEN /\ phi' = normalise_wavefunction(symmetrise_wavefunction(config, phi),
                                             observables.norm2)
            /\ IF ToleranceMet
               THEN /\ converged' = TRUE
                    /\ pc' = "save"
                    /\ UNCHANGED <<last_energy, display_energy>>
               ELSE /\ display_energy' = last_energy
                    /\ last_energy' = norm_energy
                    /\ pc' = "measure"
                    /\ UNCHANGED converged
       ELSE /\ pc' = "measure"
            /\ UNCHANGED <<phi, converged, last_energy, display_energy>>
    /\ UNCHANGED <<bracket, csvLocals, config, status, potentials, pot_saved, w_store, wnum, step, done,
                   observables, steps, applied, measurements, saved>>

\* solve, lines 153-156: the measurement record, then the test step < max_steps
Measure ==
    /\ status = "running" /\ pc = "measure"
    /\ measurements' = Append(measurements,
                              [step |-> step,
                               tau |-> FMul(Num(step), config.dt),
                               diff |-> FAbs(FSub(display_energy, norm_energy)),
                               observables |-> observables])
    /\ IF step < config.max_steps
       THEN pc' = "evolve" /\ steps' = 0
       ELSE pc' = "advance" /\ UNCHANGED steps
    /\ UNCHANGED <<bracket, csvLocals, config, status, potentials, pot_saved, w_store, wnum, phi, step, done,
                   converged, last_energy, display_energy, observables, applied, saved>>

\* an evolve whose loop ends one pass after screen_update passes
EvolveStepBreaksLate ==
    /\ status = "running" /\ pc = "evolve"
    /\ phi' = EvolveOnce(wnum, config, potentials, phi, w_store)
    /\ steps' = steps + 1
    /\ applied' = applied + 1
    /\ pc' = IF steps + 1 > config.screen_update THEN "advance" ELSE "evolve"
    /\ UNCHANGED <<bracket, csvLocals, config, status, potentials, pot_saved, w_store, wnum, step, done,
                   converged, last_energy, display_energy, observables,
                   measurements, saved>>

\* evolve, lines 324-385: one pass of its loop
EvolveStep ==
    /\ status = "running" /\ pc = "evolve"
    /\ phi' = EvolveOnce(wnum, config, potentials, phi, w_store)
    /\ steps' = steps + 1
    /\ applied' = applied + 1
    /\ pc' = IF steps + 1 >= config.screen_update THEN "advance" ELSE "evolve"
    /\ UNCHANGED <<bracket, csvLocals, config, status, potentials, pot_saved, w_store, wnum, step, done,
                   converged, last_energy, display_energy, observables,
                   measurements, saved>>

\* an advance whose loop test is step >= max_steps
AdvanceExitsEarly ==
    /\ status = "running" /\ pc = "advance"
    /\ step' = step + config.screen_update
    /\ done' = (step + config.screen_update >= config.max_steps)
    /\ pc' = IF step + config.screen_update >= config.max_steps THEN "save" ELSE "observe"
    /\ UNCHANGED <<bracket, csvLocals, config, status, potentials, pot_saved, w_store, wnum, phi,
                   converged, last_energy, display_energy, observables, steps, applied,
                   measurements, saved>>

\* solve, lines 159-160 and the loop test of line 128
Advance ==
    /\ status = "running" /\ pc = "advance"
    /\ step' = step + config.screen_update
    /\ done' = (step + config.screen_update > config.max_steps)
    /\ pc' = IF step + config.screen_update > config.max_steps THEN "save" ELSE "observe"
    /\ UNCHANGED <<bracket, csvLocals, config, status, potentials, pot_saved, w_store, wnum, phi,
                   converged, last_energy, display_energy, observables, steps, applied,
                   measurements, saved>>

\* a save that skips the wavefunction of a search that did not converge
SaveOnlyConverged ==
    /\ status = "running" /\ pc = "save"
    /\ IF config.save_wavefns /\ converged
       THEN \E ok \in BOOLEAN :
               saved' = Append(saved, [wnum |-> wnum, converged |-> converged,
                                       phi |-> phi, ok |-> ok])
       ELSE saved' = saved
    /\ pc' = "return"
    /\ UNCHANGED <<bracket, csvLocals, config, status, potentials, pot_saved, w_store, wnum, solveLocals>>

\* solve, lines 163-170: the save, whose failure is only logged
Save ==
    /\ status = "running" /\ pc = "save"
    /\ IF config.save_wavefns
       THEN \E ok \in BOOLEAN :
               saved' = Append(saved, [wnum |-> wnum, converged |-> converged,
                                       phi |-> phi, ok |-> ok])
       ELSE saved' = saved
    /\ pc' = "return"
    /\ UNCHANGED <<bracket, csvLocals, config, status, potentials, pot_saved, w_store, wnum, solveLocals>>

\* a run that stores the wavefunction and goes on whatever solve returned
ReturnAlwaysPushes ==
    /\ status = "running" /\ pc = "return"
    /\ w_store' = Append(w_store, phi)
    /\ wnum' = wnum + 1
    /\ pc' = "for"
    /\ UNCHANGED <<bracket, csvLocals, status, config, potentials, pot_saved, solveLocals, saved>>

\* solve, lines 172-178, and run, lines 87-93: Some(phi) is pushed, None panics
Return ==
    /\ status = "running" /\ pc = "return"
    /\ IF converged
       THEN /\ w_store' = Append(w_store, phi)
            /\ wnum' = wnum + 1
            /\ pc' = "for"
            /\ UNCHANGED status
       ELSE /\ status' = "panic_not_converged"
            /\ UNCHANGED <<w_store, wnum, pc>>
    /\ UNCHANGED <<bracket, csvLocals, config, potentials, pot_saved, solveLocals, saved>>

Next ==
    \/ LoadPotential
    \/ ForNext
    \/ Seed
    \/ Observe
    \/ Orthonormalise
    \/ Snap
    \/ Measure
    \/ EvolveStep
    \/ Advance
    \/ Save
    \/ Return

Spec == Init /\ [][Next]_vars

(***************************************************************************)
(* input: load_wavefunctions, wavefunction_plain and parse_csv_to_array3.  *)
(* An array of this part is a function on the index triples of its shape.  *)
(***************************************************************************)
\* the index triples of an array of the given shape
Box(shape) ==
    {<<i, j, k>> : i \in 0..(shape[1] - 1), j \in 0..(shape[2] - 1), k \in 0..(shape[3] - 1)}

\* Array3::zeros(shape)
zeros(shape) == [idx \in Box(shape) |-> Zero]

\* Array3::from_shape_vec(shape, d): the vector in row-major order, or an
\* error when its length is not the size of the shape
from_shape_vec(shape, d) ==
    IF Len(d) = shape[1] * shape[2] * shape[3]
    THEN [ok |-> TRUE,
          array |-> [idx \in Box(shape) |->
                        d[(idx[1] * shape[2] + idx[2]) * shape[3] + idx[3] + 1]]]
    ELSE [ok |-> FALSE, array |-> <<>>]

\* grid::get_mut_work_area: the cells 3..dim-3 of each axis
InWorkAreaOf(shape, idx) ==
    \A a \in 1..3 : Halo <= idx[a] /\ idx[a] < shape[a] - Halo

\* lines 149-151: result copied cell by cell into the work area of complete
CopyDown(shape, complete, result) ==
    [idx \in Box(shape) |->
        IF InWorkAreaOf(shape, idx)
        THEN result[<<idx[1] - Halo, idx[2] - Halo, idx[3] - Halo>>]
        ELSE complete[idx]]

\* load_wavefunctions, lines 52-55
init_size(cf) == <<cf.grid.size.x + 6, cf.grid.size.y + 6, cf.grid.size.z + 6>>

\* grid sizes and numbers of stored states explored
GridSizes == {1, 2}
LoadConfigs ==
    { [wavenum |-> n, grid |-> [size |-> [x |-> x, y |-> y, z |-> z]]] :
        n \in 0..2, x \in GridSizes, y \in GridSizes, z \in GridSizes }

\* a line of a csv file: a PlainRecord, or a line that does not parse as one
PlainRecord(i, j, k, d) == [ok |-> TRUE, i |-> i, j |-> j, k |-> k, data |-> d]
BadLine == [ok |-> FALSE, i |-> 0, j |-> 0, k |-> 0, data |-> Zero]

\* the file written for a work area of the given extents, in row-major
\* order, with the distinct nonzero values 1, 2, ...
Written(ext) ==
    [p \in 1..(ext[1] * ext[2] * ext[3]) |->
        PlainRecord((p - 1) \div (ext[2] * ext[3]),
                    ((p - 1) \div ext[3]) % ext[2],
                    (p - 1) % ext[3],
                    Num(p))]

Reverse(f) == [p \in 1..Len(f) |-> f[Len(f) + 1 - p]]

\* The input folder: no file, a written file, one that lost its first line,
\* one followed by a broken line, or one with its lines in reverse order.
Files ==
    {NoFile}
    \union UNION { { [some |-> TRUE, records |-> Written(<<x, y, z>>)],
                     [some |-> TRUE, records |-> Tail(Written(<<x, y, z>>))],
                     [some |-> TRUE, records |-> Append(Written(<<x, y, z>>), BadLine)],
                     [some |-> TRUE, records |-> Reverse(Written(<<x, y, z>>))] } :
                   x \in GridSizes, y \in GridSizes, z \in GridSizes }

InitCsv ==
    /\ config \in LoadConfigs
    /\ status = "running"
    /\ pc = "lw_for"
    /\ wnum = 0
    /\ Fresh

gridLocals == <<potentials, pot_saved, solveLocals, saved>>

\* load_wavefunctions, line 57: the head of the loop over 0..config.wavenum
LoadNext ==
    /\ status = "running" /\ pc = "lw_for"
    /\ IF wnum < config.wavenum
       THEN pc' = "plain" /\ UNCHANGED status
       ELSE status' = "loaded" /\ UNCHANGED pc
    /\ UNCHANGED <<config, w_store, wnum, csvLocals, gridLocals, bracket>>

\* wavefunction_plain, lines 26-34: the file found in the input folder
wavefunction_plain ==
    /\ status = "running" /\ pc = "plain"
    /\ \E f \in Files : file' = f
    /\ pc' = "open"
    /\ UNCHANGED <<config, status, w_store, wnum, pos, max_i, max_j, max_k, data, wfn,
                   gridLocals, bracket>>

\* parse_csv_to_array3, lines 107-113 and 168: no file is an Err, and so is
\* a file that cannot be opened
ParseOpen ==
    /\ status = "running" /\ pc = "open"
    /\ \E opened \in BOOLEAN :
          IF file.some /\ opened
          THEN /\ pos' = 1
               /\ max_i' = 0 /\ max_j' = 0 /\ max_k' = 0
               /\ data' = <<>>
               /\ pc' = "read"
               /\ UNCHANGED wfn
          ELSE /\ wfn' = [kind |-> "Err", array |-> <<>>]
               /\ pc' = "match"
               /\ UNCHANGED <<pos, max_i, max_j, max_k, data>>
    /\ UNCHANGED <<config, status, w_store, wnum, file, gridLocals, bracket>>

\* parse_csv_to_array3, lines 114-126: one record of the reader
ParseRecord ==
    /\ status = "running" /\ pc = "read"
    /\ IF pos > Len(file.records)
       THEN /\ pc' = "shape"
            /\ UNCHANGED <<pos, max_i, max_j, max_k, data, wfn>>
       ELSE IF ~file.records[pos].ok
       THEN /\ wfn' = [kind |-> "Err", array |-> <<>>]
            /\ pc' = "match"
            /\ UNCHANGED <<pos, max_i, max_j, max_k, data>>
       ELSE /\ max_i' = IF file.records[pos].i > max_i THEN file.records[pos].i ELSE max_i
            /\ max_j' = IF file.records[pos].j > max_j THEN file.records[pos].j ELSE max_j
            /\ max_k' = IF file.records[pos].k > max_k THEN file.records[pos].k ELSE max_k
            /\ data' = Append(data, file.records[pos].data)
            /\ pos' = pos + 1
            /\ UNCHANGED <<pc, wfn>>
    /\ UNCHANGED <<config, status, w_store, wnum, file, gridLocals, bracket>>

\* a parse that spreads a file of lower resolution as an array of zeros
ParseShapeZeroFill ==
    /\ status = "running" /\ pc = "shape"
    /\ wfn' = [kind |-> "Ok", array |-> zeros(init_size(config))]
    /\ pc' = "match"
    /\ UNCHANGED <<config, status, w_store, wnum, file, pos, max_i, max_j, max_k, data,
                   gridLocals, bracket>>

\* parse_csv_to_array3, lines 127-166, called with target_size = init_size
ParseShape ==
    /\ status = "running" /\ pc = "shape"
    /\ LET target_size == init_size(config)
           shape == <<max_i + 1, max_j + 1, max_k + 1>>
           parsed == from_shape_vec(shape, data)
           same == \A a \in 1..3 : shape[a] + 6 = target_size[a]
           smaller == \A a \in 1..3 : shape[a] + 6 < target_size[a]
           larger == \A a \in 1..3 : shape[a] + 6 > target_size[a]
       IN  IF ~parsed.ok
           THEN status' = "panic_shape" /\ UNCHANGED <<pc, wfn>>
           ELSE IF same
           THEN /\ wfn' = [kind |-> "Ok",
                           array |-> CopyDown(target_size, zeros(target_size), parsed.array)]
                /\ pc' = "match"
                /\ UNCHANGED status
           ELSE IF smaller
           THEN status' = "panic_smaller" /\ UNCHANGED <<pc, wfn>>
           ELSE IF larger
           THEN status' = "panic_larger" /\ UNCHANGED <<pc, wfn>>
           ELSE status' = "panic_differs" /\ UNCHANGED <<pc, wfn>>
    /\ UNCHANGED <<config, w_store, wnum, file, pos, max_i, max_j, max_k, data, gridLocals, bracket>>

\* load_wavefunctions, lines 59-68: Ok is pushed, Err is a panic
LoadMatch ==
    /\ status = "running" /\ pc = "match"
    /\ IF wfn.kind = "Ok"
       THEN /\ w_store' = Append(w_store, wfn.array)
            /\ wnum' = wnum + 1
            /\ wfn' = NoResult
            /\ pc' = "lw_for"
            /\ UNCHANGED status
       ELSE /\ status' = "panic_load"
            /\ UNCHANGED <<w_store, wnum, wfn, pc>>
    /\ UNCHANGED <<config, file, pos, max_i, max_j, max_k, data, gridLocals, bracket>>

NextCsv ==
    \/ LoadNext
    \/ wavefunction_plain
    \/ ParseOpen
    \/ ParseRecord
    \/ ParseShape
    \/ LoadMatch

SpecCsv == InitCsv /\ [][NextCsv]_vars

(***************************************************************************)
(* The stencil sums of wfnc_energy and evolve as functions of the array    *)
(* they read: phi is drawn from a set of fields and each kernel computes   *)
(* its bracket at the cells of the work area.                              *)
(***************************************************************************)
\* values of a cell: zero, integers and fractions of both signs, all in the
\* range where no partial sum of a bracket overflows (1495 * |v| < MaxFloat)
FieldValues == {Zero, One, Num(-3), Fin(1, 7), Fin(-5, 2), Num(300)}
\* amplitudes of a field that is zero but for one cell
ImpulseValues == {One, Fin(-2, 3)}

\* the cells a kernel reads at the cell c: c itself and the cells up to
\* Halo steps from it along one axis
TapsOf(c) ==
    {q \in Cells :
        \/ (CY(q) = CY(c) /\ CZ(q) = CZ(c) /\ IAbs(CX(q) - CX(c)) <= Halo)
        \/ (CX(q) = CX(c) /\ CZ(q) = CZ(c) /\ IAbs(CY(q) - CY(c)) <= Halo)
        \/ (CX(q) = CX(c) /\ CY(q) = CY(c) /\ IAbs(CZ(q) - CZ(c)) <= Halo)}

\* The arrays params.phi explored: one value everywhere; one value on the
\* cells the kernels read and another elsewhere; one nonzero cell.
Fields ==
    { [q \in Cells |-> v] : v \in FieldValues }
    \union { [q \in Cells |-> IF q \in TapsOf(c) THEN v ELSE Num(9)] :
             v \in FieldValues, c \in WorkCells }
    \union { [q \in Cells |-> IF q = q0 THEN a ELSE Zero] :
             q0 \in Cells, a \in ImpulseValues }

InitStencil ==
    /\ config = CHOOSE cf \in Configs : TRUE
    /\ status = "running"
    /\ pc = "stencil"
    /\ wnum = 0
    /\ phi \in Fields
    /\ FreshButPhi

\* wfnc_energy, lines 253-275: the bracket at a cell of the work area
ApplyEnergy ==
    /\ status = "running" /\ pc = "stencil"
    /\ bracket.energy = <<>>
    /\ \E c \in WorkCells :
          bracket' = [bracket EXCEPT
                         !.energy = StencilEnergy(phi, CX(c), CY(c), CZ(c), phi[c])]
    /\ UNCHANGED <<config, status, pc, w_store, wnum, csvLocals, gridLocals>>

\* evolve, lines 343-363: the bracket at a cell of the work area
ApplyEvolve ==
    /\ status = "running" /\ pc = "stencil"
    /\ bracket.evolve = <<>>
    /\ \E c \in WorkCells :
          bracket' = [bracket EXCEPT
                         !.evolve = StencilEvolve(phi, CX(c), CY(c), CZ(c), phi[c])]
    /\ UNCHANGED <<config, status, pc, w_store, wnum, csvLocals, gridLocals>>

NextStencil ==
    \/ ApplyEnergy
    \/ ApplyEvolve

SpecStencil == InitStencil /\ [][NextStencil]_vars

\* The control state of the program. Every step of Next changes it.
ctl == <<status, pc, steps>>
\* the positions of run, solve and evolve, one per action of Next
Positions == {"load", "for", "seed", "observe", "ortho", "snap", "measure", "evolve",
              "advance", "save", "return"}
\* a run in progress, a run that returned, and the panics of run and solve
Statuses == {"running", "finished", "panic_potential", "panic_index", "panic_potential_sub",
             "panic_not_converged"}

\* The program taking a step, seen on its control state only. Under Spec
\* these are the steps of Next, and one is possible exactly while the run
\* has not ended, since each position has its action.
ProgramStep ==
    /\ status = "running"
    /\ \E s \in Statuses, p \in Positions, n \in {0, steps + 1} :
          /\ status' = s /\ pc' = p /\ steps' = n
          /\ <<s, p, n>> # ctl

\* The program is sequential and never waits: while the run has not ended
\* its next step is taken.
FairSpec == Spec /\ WF_ctl(ProgramStep)

(***************************************************************************)
(* Properties of run and solve                                             *)
(***************************************************************************)
\* the positions inside the loop of solve
LoopBody == {"observe", "ortho", "snap", "measure", "evolve", "advance"}

\* C1: run appends a snapshot of phi to the store exactly when the search
\* for the state ends converged and then goes on to the next state; when the
\* search ends exhausted the run aborts: the store is not extended, no later
\* state is started and nothing runs after the abort.
C1_AppendExactlyWhenConverged ==
    [][ /\ (pc = "return" /\ converged)
            => (w_store' = Append(w_store, phi) /\ wnum' = wnum + 1 /\ status' = "running")
        /\ (pc = "return" /\ ~converged)
            => (w_store' = w_store /\ wnum' = wnum /\ status' = "panic_not_converged")
        /\ (pc # "return") => (w_store' = w_store /\ wnum' = wnum)
        /\ (status = "panic_not_converged") => FALSE ]_vars

\* state 0 converged and was stored, state 1 was exhausted and the run aborted
C1_Witness ==
    /\ status = "panic_not_converged"
    /\ wnum = 1 /\ config.wavemax = 1
    /\ Len(w_store) = 1
    /\ ~converged

\* C2: seeding never fails: with n > 0 and no entry n-1 in the store the
\* search is seeded with the initial conditions, as it is for n = 0; with an
\* entry n-1 it is seeded with that entry.
C2_SeedingNeverFails ==
    /\ status # "panic_index"
    /\ (pc = "observe" /\ step = 0)
        => phi = IF wnum > 0 /\ wnum <= Len(w_store)
                 THEN w_store[wnum]
                 ELSE set_initial_conditions(config)

\* C3: at the end of every iteration of the loop of solve every cell of phi
\* outside the work area is zero, whatever the seed held there.
C3_HaloZero ==
    (pc \in {"advance", "save"}) => \A c \in HaloCells : phi[c] = Zero

\* the energy of the last measurement taken at a snap point, MAX without one
LastSnapEnergy(ms) ==
    LET S == {i \in 1..Len(ms) : ms[i].step % config.snap_update = 0}
    IN  IF S = {} THEN MAX
        ELSE LET i == CHOOSE i \in S : \A j \in S : j <= i
             IN  FDiv(ms[i].observables.energy, ms[i].observables.norm2)

C5_SearchTerminates ==
    /\ [](status \in Statuses /\ pc \in Positions)
    /\ []((pc \in LoopBody)
            => (step <= config.max_steps /\ step % config.screen_update = 0 /\ ~done))
    /\ [](/\ step \div config.screen_update <= config.max_steps \div config.screen_update + 1
          /\ Len(measurements) <= config.max_steps \div config.screen_update + 1)
    /\ []((pc \in {"save", "return"} /\ ~converged)
            => (done /\ step > config.max_steps
                     /\ step - config.screen_update <= config.max_steps))
    /\ []((pc \in {"save", "return"} /\ converged) => (~done /\ step <= config.max_steps))
    /\ <>(status # "running")

\* a search exhausted after max_steps / screen_update + 1 = 2 iterations
C5_Witness ==
    /\ status = "panic_not_converged"
    /\ config.max_steps = 3 /\ config.screen_update = 2
    /\ step = 4 /\ done
    /\ Len(measurements) = 2

\* a norm2 that normalise_wavefunction cannot divide by
Degenerate(x) == ~IsFinite(x) \/ ~FLt(Zero, x)

\* C6: right after each normalisation solve performs with a positive finite
\* norm2 (lines 134 and 142) the sum of phi^2 over the work area is 1.
C6_UnitNormAfterNormalise ==
    /\ (pc = "ortho" /\ wnum > 0 /\ ~Degenerate(observables.norm2))
        => get_norm_squared(normalise_wavefunction(phi, observables.norm2)) = One
    /\ (/\ pc = "measure" \/ (pc = "save" /\ converged)
        /\ step % config.snap_update = 0
        /\ ~Degenerate(observables.norm2))
        => get_norm_squared(phi) = One

\* C7: a normalisation with a zero, negative or non-finite norm2 aborts the
\* search: solve never goes on past line 134 or line 142 with such a norm2.
C7_DegenerateNormAborts ==
    (status = "running" /\ Degenerate(observables.norm2))
        => ~ \/ (pc = "snap" /\ wnum > 0)
             \/ (pc = "measure" /\ step % config.snap_update = 0)

\* C8: a potential without a finite entry yields no bundle and no search;
\* otherwise epsilon is twice the absolute value of the least finite entry.
C8_PotentialNonFinite ==
    (pc # "load")
        => \E c \in Cells :
              /\ IsFinite(potentials.v[c])
              /\ \A d \in Cells :
                    IsFinite(potentials.v[d]) => ~FLt(potentials.v[d], potentials.v[c])
              /\ potentials.epsilon = FMul(Num(2), FAbs(potentials.v[c]))
              /\ ~FLt(potentials.epsilon, Zero)

\* the searches that have ended so far in this run
EndedSearches ==
    (wnum - config.wavenum)
        + (IF pc = "return" /\ status \in {"running", "panic_not_converged"} THEN 1 ELSE 0)

\* C9: with save_wavefns every ended search has saved its final phi exactly
\* once, flagged with its result, before run acts on the result; a failed
\* save changes nothing: a converged state is stored and the run goes on.
C9_SavedOncePerSearch ==
    /\ pc # "load" =>
         Len(saved) = IF config.save_wavefns THEN EndedSearches ELSE 0
    /\ \A i \in 1..Len(saved) :
          /\ saved[i].wnum = config.wavenum + i - 1
          /\ i <= Len(w_store) => (saved[i].converged /\ saved[i].phi = w_store[i])
          /\ i > Len(w_store) => (saved[i].converged = converged /\ saved[i].phi = phi)
    /\ (config.save_wavefns /\ pc \in {"for", "seed"} \union LoopBody \union {"save"})
          => Len(w_store) = Len(saved)
    /\ (status = "panic_not_converged" /\ config.save_wavefns)
          => (Len(saved) = Len(w_store) + 1 /\ ~saved[Len(saved)].converged)

\* the save of state 0 failed, state 0 was stored all the same, and the
\* exhausted state 1 was saved, flagged, before the run aborted
C9_Witness ==
    /\ status = "panic_not_converged"
    /\ Len(saved) = 2 /\ Len(w_store) = 1
    /\ saved[1].converged /\ ~saved[1].ok
    /\ ~saved[2].converged /\ saved[2].wnum = 1

\* the array an Ok holds for the records read: the requested shape, the
\* data in the work area in the order read, zero around it
Filled(a) ==
    /\ DOMAIN a = Box(init_size(config))
    /\ \A idx \in Box(init_size(config)) :
          a[idx] = IF InWorkAreaOf(init_size(config), idx)
                   THEN data[((idx[1] - 3) * (max_j + 1) + (idx[2] - 3)) * (max_k + 1)
                             + (idx[3] - 3) + 1]
                   ELSE Zero

AxisCoefficient(n) ==
    IF IAbs(n) = 1 THEN 270 ELSE IF IAbs(n) = 2 THEN -27 ELSE IF IAbs(n) = 3 THEN 2 ELSE 0

\* the coefficient of the cell q in the stencil at c: -1470 at c, the axis
\* coefficient on the three axes through c, 0 elsewhere
TapCoefficient(q, c) ==
    IF q = c THEN -1470
    ELSE IF CY(q) = CY(c) /\ CZ(q) = CZ(c) THEN AxisCoefficient(CX(q) - CX(c))
    ELSE IF CX(q) = CX(c) /\ CZ(q) = CZ(c) THEN AxisCoefficient(CY(q) - CY(c))
    ELSE IF CX(q) = CX(c) /\ CY(q) = CY(c) THEN AxisCoefficient(CZ(q) - CZ(c))
    ELSE 0

\* the stencil at c as a sum over all cells of coefficient times value
TapSum(l, c) == ScalarSum([q \in Cells |-> FMul(Num(TapCoefficient(q, c)), l[q])])

\* C11: on a field that holds one value on a cell and on its three
\* neighbours in each of the six axis directions, the bracket of wfnc_energy
\* and the bracket of evolve are both 0; on every field both are the same
\* sum over the same 19 cells, with 2, -27, 270 at 3, 2, 1 steps along each
\* axis and -1470 once at the centre (in the exact arithmetic of the model).
C11_StencilOfConstantIsZero ==
    \A c \in WorkCells :
        /\ Cardinality({q \in Cells : TapCoefficient(q, c) # 0}) = 19
        /\ {q \in Cells : TapCoefficient(q, c) # 0} = TapsOf(c)
        /\ (bracket.energy # <<>>) => bracket.energy = TapSum(phi, c)
        /\ (bracket.evolve # <<>>) => bracket.evolve = TapSum(phi, c)
        /\ (bracket.energy # <<>> /\ bracket.evolve # <<>>)
              => bracket.energy = bracket.evolve
        /\ (\A q \in TapsOf(c) : phi[q] = phi[c])
              => /\ (bracket.energy # <<>>) => bracket.energy = Zero
                 /\ (bracket.evolve # <<>>) => bracket.evolve = Zero

\* both kernels have computed 0 on a field that holds 1/7 on the 19 cells
\* they read and another value elsewhere
C11_Witness ==
    /\ pc = "stencil"
    /\ bracket = [energy |-> Zero, evolve |-> Zero]
    /\ \E c \in WorkCells :
          /\ phi[c] = Fin(1, 7)
          /\ \A q \in TapsOf(c) : phi[q] = phi[c]
          /\ \E q \in Cells : phi[q] # phi[c]

\* the positions of an iteration of solve before its call of evolve
BeforeEvolve == {"observe", "ortho", "snap", "measure"}

\* C12: from the start of an iteration of solve to its call of evolve, step
\* is the number of update steps applied to phi since the seeding; a call of
\* evolve applies exactly screen_update steps; an iteration that skips evolve
\* is the last of its search; every measurement emitted carries the step
\* count applied so far and tau = that count * dt; and a search never
\* applies more than max_steps + screen_update - 1 update steps.
C12_StepCountsAppliedUpdates ==
    /\ [](pc \in BeforeEvolve => applied = step)
    /\ [](pc = "evolve" => applied = step + steps /\ steps < config.screen_update)
    /\ [](pc = "advance" => applied = IF step < config.max_steps
                                      THEN step + config.screen_update
                                      ELSE step)
    /\ [](applied <= config.max_steps + config.screen_update - 1)
    /\ [][(pc = "evolve" /\ pc' = "advance")
            => steps' = config.screen_update /\ applied' = step + config.screen_update]_vars
    /\ [][(pc = "advance" /\ pc' # pc /\ applied = step)
            => pc' = "save" /\ done']_vars
    /\ [][Len(measurements') = Len(measurements) + 1
            => /\ measurements'[Len(measurements')].step = applied
               /\ measurements'[Len(measurements')].tau = FMul(Num(applied), config.dt)]_vars

\* a search that ran out of steps: its last iteration, at step = max_steps,
\* emitted its measurement and skipped evolve, after max_steps +
\* screen_update - 1 update steps in all
C12_Witness ==
    /\ status = "running" /\ pc = "save" /\ ~converged
    /\ applied = config.max_steps + config.screen_update - 1
    /\ applied = config.max_steps /\ applied > 1
    /\ step = applied + config.screen_update
    /\ measurements[Len(measurements)].step = applied
    /\ measurements[Len(measurements)].tau = FMul(Num(applied), config.dt)
====
